---- MODULE Spec2Model ----
(***************************************************************************)
(* Model of the shared store of src/memory/shared_memory.py                *)
(* (class SharedMemory): the entry table, the conversation index, the      *)
(* statistics and the retention pass.  Every public method runs under the  *)
(* single RLock, so each call is one atomic action.                        *)
(* Around it: the pipeline runs and the memory endpoints of src/main.py    *)
(* with the agents' store calls, and the rate limiter of                   *)
(* src/services/gemini_service.py.                                         *)
(***************************************************************************)
EXTENDS Integers, Sequences, FiniteSets, TLC

VARIABLES
    memory,              \* self._memory: insertion-ordered dict, as the sequence of its entries
    conversation_index,  \* self._conversation_index: conversation_id -> list of processing ids
    stats,               \* self._stats
    max_entries,         \* self.max_entries (constructor argument)
    cleanup_hours,       \* self.cleanup_hours (constructor argument)
    now,                 \* the wall clock read by datetime.utcnow()
    last,                \* the most recent call: method, arguments, returned value, what its retention pass did
    writes,              \* per processing id: write calls applied to its live entry (0 when none)
    lock,                \* self._lock (threading.RLock): owning thread (0: free) and recursion count
    th,                  \* per caller thread: where it is inside the method it is executing
    held,                \* the value a caller keeps from its latest get_all_memory call
    shared,              \* a dict object a caller keeps and passes as metadata: its content,
                         \* and the ids whose entry.metadata is that very object
    pipe,                \* the pipeline runs of src/main.py, in the order they started: where
                         \* each run is, what it stored and the store writes it made
    gemini               \* GeminiService: self.request_times, the calls asleep in
                         \* _check_rate_limit, the calls let through, the clock in seconds

vars == <<memory, conversation_index, stats, max_entries, cleanup_hours, now, last, writes,
          lock, th, held, shared, pipe, gemini>>

(* ------------------------------ bounds --------------------------------- *)
\* generate_response calls made in SpecGemini
MaxRequests == 62
\* pipeline runs started in SpecPipe
MaxPipes == 2
\* clock ticks per hour
TicksPerHour == 2
\* the clock stops advancing here
MaxClock == 3
\* write calls issued to one live entry
MaxHistory == 2
\* write calls one document pipeline issues for its processing id
FlowHistory == 3
\* the clock of the pipelines stops advancing here
FlowClock == 1
\* calls each caller thread makes
MaxCalls == 2
\* processing ids handed out by the bulk intake
MaxFill == 104
\* the clock of the long-running store stops advancing here
SweepClock == 6

(* ------------------------- program constants --------------------------- *)
\* "+ 100  # Remove extra for buffer"
EvictionBuffer == 100

(* ------------------------------ values --------------------------------- *)
\* Optional[X]: None is the empty sequence, a present value x is <<x>>
None == <<>>
Some(x) == <<x>>

\* the processing ids and conversation ids callers pass
ProcIds == {1, 2}
ConvIds == {"c1", "c2"}
\* a conversation_id argument that cannot be a dict key: the list ['c1']
Unhashable == "['c1']"
Hashable(x) == x # Unhashable

\* conversation ids including the empty string
ConvIdsAny == {"", "c1", "c2"}

\* dict literals used as metadata arguments
MdA1 == [k \in {"a"} |-> 1]
MetadataInputs == { MdA1, [k \in {"b"} |-> 2], [k \in {"a"} |-> 2] }
\* ClassificationResult values (confidence in tenths)
ClOrder == [format |-> "json", intent |-> "order", confidence |-> 8]
ClassificationInputs == { ClOrder, [format |-> "email", intent |-> "complaint", confidence |-> 5] }
\* extracted_data payloads: a non-empty dict and the empty one
ExTotal == [k \in {"total"} |-> 7]
ExtractedInputs == { ExTotal, <<>> }

WriteOps == {"store_metadata", "store_classification", "store_extracted_data", "store_conversation_id"}
ReadOps == {"get_memory", "get_metadata", "get_classification", "get_extracted_data"}

(* --------------------------- timestamps -------------------------------- *)
\* datetime.isoformat(): fixed-width fields, the sub-unit part omitted when it is zero
isoformat(t) ==
    IF t % TicksPerHour = 0 THEN <<t \div TicksPerHour>>
    ELSE <<t \div TicksPerHour, t % TicksPerHour>>

\* datetime.fromisoformat()
fromisoformat(s) ==
    IF Len(s) = 1 THEN s[1] * TicksPerHour ELSE s[1] * TicksPerHour + s[2]

\* Python's str "<" on two isoformat strings (lexicographic, a proper prefix is smaller)
StrLess(s, t) ==
    \/ s[1] < t[1]
    \/ s[1] = t[1] /\ Len(s) < Len(t)
    \/ s[1] = t[1] /\ Len(s) = 2 /\ Len(t) = 2 /\ s[2] < t[2]

\* timestamps the store never writes itself: a string fromisoformat() rejects with
\* ValueError (the empty string), and a string it parses into a datetime with a UTC
\* offset ("...+00:00"), which "<" refuses to compare with utcnow() (TypeError)
Unparseable == <<>>
OffsetAware == <<0, 0, 0>>
Parses(s) == Len(s) > 0
Comparable(s) == Len(s) < 3

\* timedelta(hours=h)
timedelta(h) == h * TicksPerHour

(* ------------------------ the dict self._memory ------------------------ *)
Keys(mem) == { mem[i].processing_id : i \in 1..Len(mem) }
Has(mem, p) == \E i \in 1..Len(mem) : mem[i].processing_id = p
IndexOf(mem, p) == CHOOSE i \in 1..Len(mem) : mem[i].processing_id = p
Entry(mem, p) == mem[IndexOf(mem, p)]
\* del self._memory[p] taking the entry after p with it
DelKey_AndNext(mem, p) ==
    LET i == IndexOf(mem, p)
    IN SubSeq(mem, 1, i - 1) \o SubSeq(mem, i + 2, Len(mem))

\* del self._memory[p]
DelKey(mem, p) ==
    LET i == IndexOf(mem, p)
    IN SubSeq(mem, 1, i - 1) \o SubSeq(mem, i + 1, Len(mem))

\* list membership and list.remove(x) (first occurrence)
InList(l, x) == \E i \in 1..Len(l) : l[i] = x
ListRemove(l, x) ==
    LET i == CHOOSE j \in 1..Len(l) : l[j] = x /\ \A k \in 1..(j - 1) : l[k] # x
    IN SubSeq(l, 1, i - 1) \o SubSeq(l, i + 1, Len(l))

\* assignment of the new dict for dict.update
DictUpdate_Replace(old, new) == new

\* dict.update
DictUpdate(old, new) ==
    [k \in (DOMAIN old) \cup (DOMAIN new) |-> IF k \in DOMAIN new THEN new[k] ELSE old[k]]

\* del d[k] on a dict modelled as a function
DictDel(d, k) == [x \in (DOMAIN d) \ {k} |-> d[x]]
\* d[k] = v
DictSet(d, k, v) == [x \in (DOMAIN d) \cup {k} |-> IF x = k THEN v ELSE d[x]]

\* evaluate v once and hand the value to F (a local variable of the code)
Bind(v, F(_)) == CHOOSE y \in { F(x) : x \in {v} } : TRUE

\* Python truthiness of an Optional[str]
Truthy(c) == c # None /\ c # Some("")

\* MemoryEntry(...)
MemoryEntry(p, ts, md, cl, ex, conv, hist) ==
    [processing_id |-> p, timestamp |-> ts, metadata |-> md, classification |-> cl,
     extracted_data |-> ex, conversation_id |-> conv, agent_history |-> hist]

\* the three mutable parts of the store, passed through the helpers
Store(mem, idx, st) == [memory |-> mem, conversation_index |-> idx, stats |-> st]

\* SetField without the agent_history.append
SetField_NoTag(mem, p, field, v, tag) ==
    LET i == IndexOf(mem, p)
    IN [mem EXCEPT ![i] = [@ EXCEPT ![field] = v]]

\* self._memory[p].<field> = v ; self._memory[p].agent_history.append(tag)
SetField(mem, p, field, v, tag) ==
    LET i == IndexOf(mem, p)
    IN [mem EXCEPT ![i] = [@ EXCEPT ![field] = v, !.agent_history = Append(@, tag)]]

(* --------------------------- _update_stats ----------------------------- *)
\* _update_stats refreshing last_update only
update_stats_KeepCounts(S, t) ==
    [S EXCEPT !.stats = [@ EXCEPT !.last_update = Some(isoformat(t))]]

update_stats(S, t) ==
    [S EXCEPT !.stats = [@ EXCEPT !.total_entries = Len(S.memory),
                                  !.active_conversations = Cardinality(DOMAIN S.conversation_index),
                                  !.last_update = Some(isoformat(t))]]

(* ---------------------------- clear_memory ----------------------------- *)
\* clear_memory without "if not conv_list: del self._conversation_index[...]"
clear_memory_fn_KeepBucket(S, p, t) ==
    IF ~Has(S.memory, p) THEN [store |-> S, ret |-> FALSE, pruned |-> {}]
    ELSE
      LET entry == Entry(S.memory, p)
          cid == IF entry.conversation_id = None THEN "" ELSE entry.conversation_id[1]
          idx == S.conversation_index
          conv_list == IF cid \in DOMAIN idx THEN idx[cid] ELSE <<>>
          removed == IF InList(conv_list, p) THEN ListRemove(conv_list, p) ELSE conv_list
          idx1 == IF Truthy(entry.conversation_id) /\ cid \in DOMAIN idx
                  THEN DictSet(idx, cid, removed) ELSE idx
      IN [store |-> update_stats(Store(DelKey(S.memory, p), idx1, S.stats), t), ret |-> TRUE,
          pruned |-> {}]

\* clear_memory deleting the bucket even when other ids remain in it
clear_memory_fn_DropBucket(S, p, t) ==
    IF ~Has(S.memory, p) THEN [store |-> S, ret |-> FALSE, pruned |-> {}]
    ELSE
      LET entry == Entry(S.memory, p)
          cid == IF entry.conversation_id = None THEN "" ELSE entry.conversation_id[1]
          idx == S.conversation_index
          idx1 == IF Truthy(entry.conversation_id) /\ cid \in DOMAIN idx
                  THEN DictDel(idx, cid) ELSE idx
      IN [store |-> update_stats(Store(DelKey(S.memory, p), idx1, S.stats), t), ret |-> TRUE,
          pruned |-> (DOMAIN idx) \ (DOMAIN idx1)]

\* returns the store afterwards, the returned boolean and the buckets deleted
clear_memory_fn(S, p, t) ==
    IF ~Has(S.memory, p) THEN [store |-> S, ret |-> FALSE, pruned |-> {}]
    ELSE
      LET entry == Entry(S.memory, p)
          cid == IF entry.conversation_id = None THEN "" ELSE entry.conversation_id[1]
          idx == S.conversation_index
          inIdx == cid \in DOMAIN idx
          conv_list == IF inIdx THEN idx[cid] ELSE <<>>
          removed == IF InList(conv_list, p) THEN ListRemove(conv_list, p) ELSE conv_list
      IN IF Truthy(entry.conversation_id) /\ ~Hashable(cid)
         THEN \* self._conversation_index.get(...) raises TypeError: caught, False
              [store |-> S, ret |-> FALSE, pruned |-> {}]
         ELSE IF Truthy(entry.conversation_id) /\ removed = <<>> /\ ~inIdx
         THEN \* del self._conversation_index[...] raises KeyError: caught, False
              [store |-> S, ret |-> FALSE, pruned |-> {}]
         ELSE
           LET idx1 == IF ~Truthy(entry.conversation_id) THEN idx
                       ELSE IF removed = <<>> THEN DictDel(idx, cid)
                       ELSE DictSet(idx, cid, removed)
               S1 == Store(DelKey(S.memory, p), idx1, S.stats)
           IN [store |-> update_stats(S1, t), ret |-> TRUE,
               pruned |-> (DOMAIN idx) \ (DOMAIN idx1)]

\* for processing_id in ids: self.clear_memory(processing_id)
\* (the calls in order; the list is split in halves only to keep the evaluation shallow)
RECURSIVE ClearEach(_, _, _)
ClearEach(S, ids, t) ==
    IF ids = <<>> THEN S
    ELSE IF Len(ids) = 1 THEN clear_memory_fn(S, ids[1], t).store
    ELSE LET h == Len(ids) \div 2
         IN Bind(ClearEach(S, SubSeq(ids, 1, h), t),
                 LAMBDA S1 : ClearEach(S1, SubSeq(ids, h + 1, Len(ids)), t))

(* ------------------------- _cleanup_old_entries ------------------------ *)
\* the sort with reverse=True: newest first
SortedIds_Descending(mem) ==
    LET n == Len(mem)
        before(j, i) == \/ StrLess(mem[i].timestamp, mem[j].timestamp)
                        \/ mem[j].timestamp = mem[i].timestamp /\ j < i
        rank == [i \in 1..n |-> 1 + Cardinality({j \in 1..n : before(j, i)})]
    IN [k \in 1..n |-> mem[CHOOSE i \in 1..n : rank[i] = k].processing_id]

\* sorted(self._memory.items(), key=lambda x: x[1].timestamp): stable, ascending
SortedIds(mem) ==
    LET n == Len(mem)
        before(j, i) == \/ StrLess(mem[j].timestamp, mem[i].timestamp)
                        \/ mem[j].timestamp = mem[i].timestamp /\ j < i
        rank == [i \in 1..n |-> 1 + Cardinality({j \in 1..n : before(j, i)})]
    IN [k \in 1..n |-> mem[CHOOSE i \in 1..n : rank[i] = k].processing_id]

\* min(a, b)
Min(a, b) == IF a < b THEN a ELSE b

cleanup_old_entries(S, t, maxe) ==
    IF Len(S.memory) <= maxe THEN S
    ELSE
      LET entries_to_remove == Len(S.memory) - maxe + EvictionBuffer
          loop(sorted_entries) ==
              ClearEach(S, SubSeq(sorted_entries, 1, Min(entries_to_remove, Len(sorted_entries))), t)
      IN Bind(SortedIds(S.memory), loop)

(* ----------------------- _cleanup_expired_entries ---------------------- *)
\* the expiry test with "<=" for "<"
ExpiredIds_Inclusive(mem, t, hours) ==
    LET cutoff_time == t - timedelta(hours)
        expired(e) == IF Parses(e.timestamp) THEN fromisoformat(e.timestamp) <= cutoff_time
                      ELSE TRUE
        sel == SelectSeq(mem, expired)
    IN [i \in 1..Len(sel) |-> sel[i].processing_id]

\* the ids collected into expired_ids, in dict order ("except ValueError": expired)
ExpiredIds(mem, t, hours) ==
    LET cutoff_time == t - timedelta(hours)
        expired(e) == IF Parses(e.timestamp) THEN fromisoformat(e.timestamp) < cutoff_time
                      ELSE TRUE
        sel == SelectSeq(mem, expired)
    IN [i \in 1..Len(sel) |-> sel[i].processing_id]

\* the collecting loop raises TypeError at an entry whose timestamp parses but cannot
\* be compared with cutoff_time; nothing has been removed at that point
SweepRaises(mem) ==
    \E i \in 1..Len(mem) : Parses(mem[i].timestamp) /\ ~Comparable(mem[i].timestamp)

cleanup_expired_entries(S, t, hours) ==
    LET S1 == ClearEach(S, ExpiredIds(S.memory, t, hours), t)
    IN [S1 EXCEPT !.stats.last_cleanup = isoformat(t)]

(* -------------------------- _cleanup_if_needed ------------------------- *)
\* whether the capacity trigger / the age trigger fires
CapacityDue(S, maxe) == Len(S.memory) > maxe
\* the age test with ">=" for ">"
SweepDue_Inclusive(S, t, hours) == t - fromisoformat(S.stats.last_cleanup) >= timedelta(hours)
SweepDue(S, t, hours) == t - fromisoformat(S.stats.last_cleanup) > timedelta(hours)

\* the (id, timestamp) pairs of a table
Stamps(mem) == { <<mem[i].processing_id, mem[i].timestamp>> : i \in 1..Len(mem) }

\* what a call's retention pass did (since: the last_cleanup it read); all empty for a
\* call that runs none
NoRetention ==
    [evaluated |-> FALSE, cap |-> FALSE, sweep |-> FALSE, since |-> None,
     pre |-> {}, mid |-> {}, post |-> {}]

\* returns the store afterwards and the record of the pass
cleanup_if_needed(S, t, maxe, hours) ==
    LET afterSweep(S1) ==
            LET due == SweepDue(S1, t, hours)
                pass(S2) ==
                    [store |-> S2,
                     raised |-> due /\ SweepRaises(S1.memory),
                     obs |-> [evaluated |-> TRUE, cap |-> CapacityDue(S, maxe), sweep |-> due,
                              since |-> Some(S1.stats.last_cleanup),
                              pre |-> Stamps(S.memory), mid |-> Stamps(S1.memory),
                              post |-> Stamps(S2.memory)]]
            IN Bind(IF due /\ ~SweepRaises(S1.memory)
                    THEN cleanup_expired_entries(S1, t, hours) ELSE S1, pass)
    IN Bind(IF CapacityDue(S, maxe) THEN cleanup_old_entries(S, t, maxe) ELSE S, afterSweep)

(* --------------------------- public writes ----------------------------- *)
\* each returns the store afterwards, the returned boolean and the retention record

\* store_metadata that starts the conversation index afresh
store_metadata_fn_ResetIndex(S, p, md, t, maxe, hours) ==
    LET mem1 == IF ~Has(S.memory, p)
                THEN Append(S.memory,
                            MemoryEntry(p, isoformat(t), md, None, None, None, <<"metadata_stored">>))
                ELSE LET i == IndexOf(S.memory, p)
                     IN [S.memory EXCEPT ![i] =
                            [@ EXCEPT !.metadata = DictUpdate(@, md),
                                      !.agent_history = Append(@, "metadata_updated")]]
        finish(S1) == Bind(cleanup_if_needed(S1, t, maxe, hours),
                           LAMBDA r : [store |-> r.store, ret |-> ~r.raised, obs |-> r.obs])
    IN Bind(update_stats(Store(mem1, <<>>, S.stats), t), finish)

store_metadata_fn(S, p, md, t, maxe, hours) ==
    LET mem1 == IF ~Has(S.memory, p)
                THEN Append(S.memory,
                            MemoryEntry(p, isoformat(t), md, None, None, None, <<"metadata_stored">>))
                ELSE LET i == IndexOf(S.memory, p)
                     IN [S.memory EXCEPT ![i] =
                            [@ EXCEPT !.metadata = DictUpdate(@, md),
                                      !.agent_history = Append(@, "metadata_updated")]]
        finish(S1) == Bind(cleanup_if_needed(S1, t, maxe, hours),
                           LAMBDA r : [store |-> r.store, ret |-> ~r.raised, obs |-> r.obs])
    IN Bind(update_stats([S EXCEPT !.memory = mem1], t), finish)

\* store_classification that also restamps the entry it updates
store_classification_fn_Restamp(S, p, classification, t) ==
    LET mem1 == IF ~Has(S.memory, p)
                THEN Append(S.memory,
                            MemoryEntry(p, isoformat(t), <<>>, Some(classification), None, None,
                                        <<"classification_stored">>))
                ELSE SetField(SetField_NoTag(S.memory, p, "timestamp", isoformat(t), ""),
                              p, "classification", Some(classification),
                              "classification_stored")
    IN [store |-> update_stats([S EXCEPT !.memory = mem1], t), ret |-> TRUE, obs |-> NoRetention]

store_classification_fn(S, p, classification, t) ==
    LET mem1 == IF ~Has(S.memory, p)
                THEN Append(S.memory,
                            MemoryEntry(p, isoformat(t), <<>>, Some(classification), None, None,
                                        <<"classification_stored">>))
                ELSE SetField(S.memory, p, "classification", Some(classification),
                              "classification_stored")
    IN [store |-> update_stats([S EXCEPT !.memory = mem1], t), ret |-> TRUE, obs |-> NoRetention]

\* store_extracted_data with extracted_data.update(...) for the assignment
store_extracted_data_fn_Merge(S, p, extracted_data, t) ==
    LET mem1 == IF ~Has(S.memory, p)
                THEN Append(S.memory,
                            MemoryEntry(p, isoformat(t), <<>>, None, Some(extracted_data), None,
                                        <<"data_extracted">>))
                ELSE LET old == Entry(S.memory, p).extracted_data
                         merged == IF old = None THEN extracted_data
                                   ELSE DictUpdate(old[1], extracted_data)
                     IN SetField(S.memory, p, "extracted_data", Some(merged), "data_extracted")
    IN [store |-> update_stats([S EXCEPT !.memory = mem1], t), ret |-> TRUE, obs |-> NoRetention]

store_extracted_data_fn(S, p, extracted_data, t) ==
    LET mem1 == IF ~Has(S.memory, p)
                THEN Append(S.memory,
                            MemoryEntry(p, isoformat(t), <<>>, None, Some(extracted_data), None,
                                        <<"data_extracted">>))
                ELSE SetField(S.memory, p, "extracted_data", Some(extracted_data),
                              "data_extracted")
    IN [store |-> update_stats([S EXCEPT !.memory = mem1], t), ret |-> TRUE, obs |-> NoRetention]

\* store_conversation_id without "if processing_id not in ...": always appends
store_conversation_id_fn_AlwaysAppend(S, p, conversation_id, t) ==
    LET mem1 == IF ~Has(S.memory, p)
                THEN Append(S.memory,
                            MemoryEntry(p, isoformat(t), <<>>, None, None, Some(conversation_id),
                                        <<"conversation_id_stored">>))
                ELSE SetField(S.memory, p, "conversation_id", Some(conversation_id),
                              "conversation_id_stored")
        idx == S.conversation_index
        idx1 == IF conversation_id \notin DOMAIN idx THEN DictSet(idx, conversation_id, <<>>) ELSE idx
        idx2 == DictSet(idx1, conversation_id, Append(idx1[conversation_id], p))
    IN IF ~Hashable(conversation_id)
       THEN [store |-> [S EXCEPT !.memory = mem1], ret |-> FALSE, obs |-> NoRetention]
       ELSE [store |-> update_stats(Store(mem1, idx2, S.stats), t), ret |-> TRUE,
             obs |-> NoRetention]

store_conversation_id_fn(S, p, conversation_id, t) ==
    LET mem1 == IF ~Has(S.memory, p)
                THEN Append(S.memory,
                            MemoryEntry(p, isoformat(t), <<>>, None, None, Some(conversation_id),
                                        <<"conversation_id_stored">>))
                ELSE SetField(S.memory, p, "conversation_id", Some(conversation_id),
                              "conversation_id_stored")
        idx == S.conversation_index
        idx1 == IF conversation_id \notin DOMAIN idx THEN DictSet(idx, conversation_id, <<>>) ELSE idx
        idx2 == IF ~InList(idx1[conversation_id], p)
                THEN DictSet(idx1, conversation_id, Append(idx1[conversation_id], p))
                ELSE idx1
    IN IF ~Hashable(conversation_id)
       THEN \* "conversation_id not in self._conversation_index" raises TypeError after the
            \* entry was written: caught, False, _update_stats not reached
            [store |-> [S EXCEPT !.memory = mem1], ret |-> FALSE, obs |-> NoRetention]
       ELSE [store |-> update_stats(Store(mem1, idx2, S.stats), t), ret |-> TRUE,
             obs |-> NoRetention]

\* clear_all_memory without self._conversation_index.clear()
clear_all_memory_fn_KeepIndex(S, t) ==
    [store |-> update_stats(Store(<<>>, S.conversation_index, S.stats), t), ret |-> TRUE]

\* clear_all_memory
clear_all_memory_fn(S, t) ==
    [store |-> update_stats(Store(<<>>, <<>>, S.stats), t), ret |-> TRUE]

(* ---------------------------- public reads ----------------------------- *)
\* _serialize_entry: dataclasses.asdict(entry), then asdict(entry.classification) when a
\* classification is set; ClassificationResult is a pydantic model, not a dataclass, so
\* that second call raises TypeError
SerializeRaises(entry) == entry.classification # None
serialize_entry(entry) == entry

\* each read returns [ret, raised]: the Optional result, or the exception that escapes
get_memory_fn(S, p) ==
    IF ~Has(S.memory, p) THEN [ret |-> None, raised |-> ""]
    ELSE IF SerializeRaises(Entry(S.memory, p)) THEN [ret |-> None, raised |-> "TypeError"]
    ELSE [ret |-> Some(serialize_entry(Entry(S.memory, p))), raised |-> ""]

\* get_metadata with self._memory[processing_id] for self._memory.get(processing_id)
get_metadata_fn_Subscript(S, p) ==
    IF Has(S.memory, p) THEN [ret |-> Some(Entry(S.memory, p).metadata), raised |-> ""]
    ELSE [ret |-> None, raised |-> "KeyError"]

get_metadata_fn(S, p) ==
    [ret |-> IF Has(S.memory, p) THEN Some(Entry(S.memory, p).metadata) ELSE None, raised |-> ""]

get_classification_fn(S, p) ==
    [ret |-> IF Has(S.memory, p) THEN Entry(S.memory, p).classification ELSE None, raised |-> ""]

get_extracted_data_fn(S, p) ==
    [ret |-> IF Has(S.memory, p) THEN Entry(S.memory, p).extracted_data ELSE None, raised |-> ""]

\* list.sort(key=lambda x: x.get("timestamp", "")): stable, ascending
SortedByTimestamp(l) ==
    LET n == Len(l)
        before(j, i) == \/ StrLess(l[j].timestamp, l[i].timestamp)
                        \/ l[j].timestamp = l[i].timestamp /\ j < i
        rank == [i \in 1..n |-> 1 + Cardinality({j \in 1..n : before(j, i)})]
    IN [k \in 1..n |-> l[CHOOSE i \in 1..n : rank[i] = k]]

\* the entries of the listed ids that are in the table, in list order
LiveEntries(S, processing_ids) ==
    LET live(pid) == Has(S.memory, pid)
        ids == SelectSeq(processing_ids, live)
    IN [i \in 1..Len(ids) |-> Entry(S.memory, ids[i])]

\* returns the list, or the exception that escapes from _serialize_entry
get_conversation_history_fn(S, conversation_id) ==
    LET idx == S.conversation_index
        processing_ids == IF conversation_id \in DOMAIN idx THEN idx[conversation_id] ELSE <<>>
        entries == LiveEntries(S, processing_ids)
    IN IF \E i \in 1..Len(entries) : SerializeRaises(entries[i])
       THEN [ret |-> <<>>, raised |-> "TypeError"]
       ELSE [ret |-> SortedByTimestamp([i \in 1..Len(entries) |-> serialize_entry(entries[i])]),
             raised |-> ""]

\* a reference to one of the store's own objects, handed out instead of a copy
Ref(name) == [ref |-> name]

\* get_all_memory listing the table without its first entry
get_all_memory_fn_SkipFirst(S) ==
    IF \E i \in 1..Len(S.memory) : SerializeRaises(S.memory[i])
    THEN [ret |-> None, raised |-> "TypeError"]
    ELSE [ret |-> Some([entries |-> [i \in 1..(Len(S.memory) - 1) |->
                                       serialize_entry(S.memory[i + 1])],
                        conversation_index |-> Ref("_conversation_index"),
                        statistics |-> Ref("_stats")]),
          raised |-> ""]

\* get_all_memory: the entries are serialized into a new dict (asdict copies them);
\* "conversation_index" and "statistics" are self._conversation_index and self._stats
\* themselves
get_all_memory_fn(S) ==
    IF \E i \in 1..Len(S.memory) : SerializeRaises(S.memory[i])
    THEN [ret |-> None, raised |-> "TypeError"]
    ELSE [ret |-> Some([entries |-> [i \in 1..Len(S.memory) |-> serialize_entry(S.memory[i])],
                        conversation_index |-> Ref("_conversation_index"),
                        statistics |-> Ref("_stats")]),
          raised |-> ""]

\* what the holder of a value v returned by get_all_memory reads in it while the
\* store is S: the references lead to the store's current objects (the index dict and
\* the statistics dict are created once, in __init__, and only mutated in place)
View(v, S) ==
    [entries |-> v.entries, conversation_index |-> S.conversation_index,
     statistics |-> S.stats]

(* ------------------------------ threads -------------------------------- *)
\* the caller threads
Threads == {1, 2}

\* a thread outside every method; inside one: the method and its arguments, the
\* statement it is at (pc), the store as it was when the lock was taken (snap), the
\* ids its retention loop still has to clear, the trigger that loop belongs to, the
\* id the running clear_memory works on, whether that clear_memory is the nested
\* one, and the value to return
Idle ==
    [pc |-> "idle", op |-> "", pid |-> 0, arg |-> None, ret |-> None, snap |-> None,
     pending |-> <<>>, stage |-> "", target |-> 0, nested |-> FALSE, calls |-> 0]

(* ------------------------------ actions -------------------------------- *)
Cur == Store(memory, conversation_index, stats)

\* the call record kept in last
Call(op, p, arg, ret, raised, obs, pruned) ==
    [op |-> op, pid |-> p, arg |-> arg, ret |-> ret, raised |-> raised, obs |-> obs,
     pruned |-> pruned]

\* the write counter after a call that wrote entry p (p = 0: no entry written)
CountWrites(mem1, p) ==
    [q \in Keys(mem1) |->
        IF q = p THEN (IF Has(memory, p) THEN writes[p] + 1 ELSE 1) ELSE writes[q]]

\* an entry that leaves the table no longer refers to the caller's dict
Install(S) ==
    /\ memory' = S.memory
    /\ conversation_index' = S.conversation_index
    /\ stats' = S.stats
    /\ shared' = [shared EXCEPT !.holders = @ \cap Keys(S.memory)]
    /\ UNCHANGED <<max_entries, cleanup_hours, now, lock, th, held, pipe, gemini>>

\* the caller's dict after store_metadata(p, md): "metadata=metadata" makes the dict
\* passed (kept: the caller's own object) the new entry's metadata, and
\* "entry.metadata.update(metadata)" changes the object the entry refers to
SharedAfter(mem1, p, md, kept) ==
    LET updated == Has(memory, p) /\ p \in shared.holders
        created == ~Has(memory, p) /\ kept
    IN [content |-> IF updated THEN DictUpdate(shared.content, md) ELSE shared.content,
        holders |-> (shared.holders \cup (IF created THEN {p} ELSE {})) \cap Keys(mem1)]

\* every entry that refers to the caller's dict shows its content
Propagate(mem1, sh) ==
    IF sh.holders = {} THEN mem1
    ELSE [i \in 1..Len(mem1) |->
            IF mem1[i].processing_id \in sh.holders
            THEN [mem1[i] EXCEPT !.metadata = sh.content] ELSE mem1[i]]

store_metadata_call(p, md, kept) ==
    \E r \in {store_metadata_fn(Cur, p, md, now, max_entries, cleanup_hours)} :
       \E sh \in {SharedAfter(r.store.memory, p, md, kept)} :
          /\ memory' = Propagate(r.store.memory, sh)
          /\ conversation_index' = r.store.conversation_index
          /\ stats' = r.store.stats
          /\ shared' = sh
          /\ UNCHANGED <<max_entries, cleanup_hours, now, lock, th, held, pipe, gemini>>
          /\ writes' = CountWrites(r.store.memory, p)
          /\ last' = Call("store_metadata", p, Some(md), r.ret, "", r.obs, {})

\* store_metadata(p, {...}): the argument is a dict nobody else refers to
store_metadata(p, md) == store_metadata_call(p, md, FALSE)

\* store_metadata(p, d) with a dict d the caller keeps and passes again
store_metadata_kept(p) == store_metadata_call(p, shared.content, TRUE)

store_classification(p, classification) ==
    \E r \in {store_classification_fn(Cur, p, classification, now)} :
       /\ Install(r.store)
       /\ writes' = CountWrites(r.store.memory, p)
       /\ last' = Call("store_classification", p, Some(classification), r.ret, "", r.obs, {})

store_extracted_data(p, extracted_data) ==
    \E r \in {store_extracted_data_fn(Cur, p, extracted_data, now)} :
       /\ Install(r.store)
       /\ writes' = CountWrites(r.store.memory, p)
       /\ last' = Call("store_extracted_data", p, Some(extracted_data), r.ret, "", r.obs, {})

store_conversation_id(p, conversation_id) ==
    \E r \in {store_conversation_id_fn(Cur, p, conversation_id, now)} :
       /\ Install(r.store)
       /\ writes' = CountWrites(r.store.memory, p)
       /\ last' = Call("store_conversation_id", p, Some(conversation_id), r.ret, "", r.obs, {})

clear_memory(p) ==
    \E r \in {clear_memory_fn(Cur, p, now)} :
       /\ Install(r.store)
       /\ writes' = CountWrites(r.store.memory, 0)
       /\ last' = Call("clear_memory", p, None, r.ret, "", NoRetention, r.pruned)

clear_all_memory ==
    \E r \in {clear_all_memory_fn(Cur, now)} :
       /\ Install(r.store)
       /\ writes' = CountWrites(r.store.memory, 0)
       /\ last' = Call("clear_all_memory", 0, None, r.ret, "", NoRetention,
                       DOMAIN conversation_index)

Read(op, p, r) ==
    /\ last' = Call(op, p, None, r.ret, r.raised, NoRetention, {})
    /\ UNCHANGED <<memory, conversation_index, stats, max_entries, cleanup_hours, now, writes,
                   lock, th, held, shared, pipe, gemini>>

get_memory(p) == Read("get_memory", p, get_memory_fn(Cur, p))
get_metadata(p) == Read("get_metadata", p, get_metadata_fn(Cur, p))
get_classification(p) == Read("get_classification", p, get_classification_fn(Cur, p))
get_extracted_data(p) == Read("get_extracted_data", p, get_extracted_data_fn(Cur, p))

get_conversation_history(conversation_id) ==
    \E r \in {get_conversation_history_fn(Cur, conversation_id)} :
       /\ last' = Call("get_conversation_history", 0, Some(conversation_id), r.ret, r.raised,
                       NoRetention, {})
       /\ UNCHANGED <<memory, conversation_index, stats, max_entries, cleanup_hours, now, writes,
                   lock, th, held, shared, pipe, gemini>>

\* the caller keeps the returned value and what it read in it on return
get_all_memory ==
    \E r \in {get_all_memory_fn(Cur)} :
       /\ last' = Call("get_all_memory", 0, None, r.ret, r.raised, NoRetention, {})
       /\ held' = IF r.raised = "" THEN Some([value |-> r.ret[1], seen |-> View(r.ret[1], Cur)])
                  ELSE held
       /\ UNCHANGED <<memory, conversation_index, stats, max_entries, cleanup_hours, now,
                      writes, lock, th, shared, pipe, gemini>>

\* something outside the store's methods overwrites a Record's timestamp
\* (store._memory[p].timestamp = v); no method of the store does this
Corrupt(p, v) ==
    /\ Has(memory, p)
    /\ memory' = [memory EXCEPT ![IndexOf(memory, p)].timestamp = v]
    /\ last' = Call("corrupt", p, None, None, "", NoRetention, {})
    /\ UNCHANGED <<conversation_index, stats, max_entries, cleanup_hours, now, writes,
                   lock, th, held, shared, pipe, gemini>>

\* time passes between calls
Tick ==
    /\ now' = now + 1
    /\ last' = Call("tick", 0, None, None, "", NoRetention, {})
    /\ UNCHANGED <<memory, conversation_index, stats, max_entries, cleanup_hours, writes,
                   lock, th, held, shared, pipe, gemini>>

(* ----------------- the methods statement by statement ------------------ *)
\* Each public method is "with self._lock:" around its body.  A thread calls a method
\* (Invoke), takes the lock (Acquire), runs the body one statement group at a time
\* and leaves the with block (Release).  The write counter is kept by the atomic
\* actions only.
ThFrame == UNCHANGED <<max_entries, cleanup_hours, now, writes, held, shared, pipe, gemini>>

\* the thread moves to statement pc
Goto(t, pc) == th' = [th EXCEPT ![t].pc = pc]
\* the thread moves to statement pc holding the value it will return
GotoRet(t, pc, ret) == th' = [th EXCEPT ![t].pc = pc, ![t].ret = ret]

Invoke(t, op, p, arg) ==
    /\ th[t].pc = "idle"
    /\ th[t].calls < MaxCalls
    /\ th' = [th EXCEPT ![t] = [Idle EXCEPT !.pc = "lock", !.op = op, !.pid = p, !.arg = arg,
                                           !.calls = th[t].calls + 1]]
    /\ UNCHANGED <<memory, conversation_index, stats, lock, last>>
    /\ ThFrame

\* a lock that never blocks
CanAcquire_NoLock(t) == TRUE

\* a plain Lock: acquire() blocks the owner too
CanAcquire_NonReentrant(t) == lock.owner = 0

\* RLock.acquire() returns at once for the owner and when the lock is free
CanAcquire(t) == lock.owner \in {0, t}

\* the first statement of each method body
FirstPc(op) ==
    CASE op = "store_metadata" -> "sm_write"
      [] op = "store_conversation_id" -> "sc_write"
      [] op = "clear_memory" -> "cl_check"
      [] op = "get_metadata" -> "gm_read"

Acquire(t) ==
    /\ th[t].pc = "lock"
    /\ CanAcquire(t)
    /\ lock' = [owner |-> t, count |-> lock.count + 1]
    /\ th' = [th EXCEPT ![t].pc = FirstPc(th[t].op), ![t].snap = Some(Cur),
                        ![t].target = th[t].pid]
    /\ UNCHANGED <<memory, conversation_index, stats, last>>
    /\ ThFrame

\* store_metadata: create the entry or update it
SmWrite(t) ==
    /\ th[t].pc = "sm_write"
    /\ memory' =
          IF ~Has(memory, th[t].pid)
          THEN Append(memory, MemoryEntry(th[t].pid, isoformat(now), th[t].arg[1], None, None,
                                          None, <<"metadata_stored">>))
          ELSE LET i == IndexOf(memory, th[t].pid)
               IN [memory EXCEPT ![i] =
                      [@ EXCEPT !.metadata = DictUpdate(@, th[t].arg[1]),
                                !.agent_history = Append(@, "metadata_updated")]]
    /\ Goto(t, "sm_stats")
    /\ UNCHANGED <<conversation_index, stats, lock, last>>
    /\ ThFrame

\* store_metadata: self._update_stats()
SmStats(t) ==
    /\ th[t].pc = "sm_stats"
    /\ stats' = update_stats(Cur, now).stats
    /\ Goto(t, "sm_cap")
    /\ UNCHANGED <<memory, conversation_index, lock, last>>
    /\ ThFrame

\* _cleanup_if_needed: the capacity test, and _cleanup_old_entries up to its loop
SmCap(t) ==
    /\ th[t].pc = "sm_cap"
    /\ IF CapacityDue(Cur, max_entries)
       THEN th' = [th EXCEPT ![t].pc = "ev_next", ![t].stage = "cap",
                             ![t].pending =
                                SubSeq(SortedIds(memory), 1,
                                       Min(Len(memory) - max_entries + EvictionBuffer,
                                           Len(memory)))]
       ELSE Goto(t, "sm_sweep")
    /\ UNCHANGED <<memory, conversation_index, stats, lock, last>>
    /\ ThFrame

\* _cleanup_if_needed: the age test, and _cleanup_expired_entries up to its loop
SmSweep(t) ==
    /\ th[t].pc = "sm_sweep"
    /\ IF SweepDue(Cur, now, cleanup_hours)
       THEN IF SweepRaises(memory) THEN GotoRet(t, "ret", FALSE)
            ELSE th' = [th EXCEPT ![t].pc = "ev_next", ![t].stage = "sweep",
                                  ![t].pending = ExpiredIds(memory, now, cleanup_hours)]
       ELSE GotoRet(t, "ret", TRUE)
    /\ UNCHANGED <<memory, conversation_index, stats, lock, last>>
    /\ ThFrame

\* the loop calls self.clear_memory(processing_id): the lock is taken once more
EvNext(t) ==
    /\ th[t].pc = "ev_next"
    /\ th[t].pending # <<>>
    /\ CanAcquire(t)
    /\ lock' = [owner |-> t, count |-> lock.count + 1]
    /\ th' = [th EXCEPT ![t].pc = "cl_check", ![t].target = Head(th[t].pending),
                        ![t].pending = Tail(th[t].pending), ![t].nested = TRUE]
    /\ UNCHANGED <<memory, conversation_index, stats, last>>
    /\ ThFrame

\* the loop is over: on to the age test, or (after the sweep) set last_cleanup and return
EvDone(t) ==
    /\ th[t].pc = "ev_next"
    /\ th[t].pending = <<>>
    /\ IF th[t].stage = "cap"
       THEN Goto(t, "sm_sweep") /\ UNCHANGED stats
       ELSE /\ stats' = [stats EXCEPT !.last_cleanup = isoformat(now)]
            /\ GotoRet(t, "ret", TRUE)
    /\ UNCHANGED <<memory, conversation_index, lock, last>>
    /\ ThFrame

\* clear_memory: "if processing_id in self._memory"
ClCheck(t) ==
    /\ th[t].pc = "cl_check"
    /\ IF Has(memory, th[t].target) THEN Goto(t, "cl_index") ELSE GotoRet(t, "cl_exit", FALSE)
    /\ UNCHANGED <<memory, conversation_index, stats, lock, last>>
    /\ ThFrame

\* clear_memory: remove the id from the conversation index (KeyError: return False)
ClIndex(t) ==
    /\ th[t].pc = "cl_index"
    /\ \E r \in {clear_memory_fn(Cur, th[t].target, now)} :
          IF r.ret
          THEN conversation_index' = r.store.conversation_index /\ Goto(t, "cl_del")
          ELSE UNCHANGED conversation_index /\ GotoRet(t, "cl_exit", FALSE)
    /\ UNCHANGED <<memory, stats, lock, last>>
    /\ ThFrame

\* clear_memory: del self._memory[processing_id] (KeyError: return False)
ClDel(t) ==
    /\ th[t].pc = "cl_del"
    /\ IF Has(memory, th[t].target)
       THEN memory' = DelKey(memory, th[t].target) /\ Goto(t, "cl_stats")
       ELSE UNCHANGED memory /\ GotoRet(t, "cl_exit", FALSE)
    /\ UNCHANGED <<conversation_index, stats, lock, last>>
    /\ ThFrame

\* clear_memory: self._update_stats(); return True
ClStats(t) ==
    /\ th[t].pc = "cl_stats"
    /\ stats' = update_stats(Cur, now).stats
    /\ GotoRet(t, "cl_exit", TRUE)
    /\ UNCHANGED <<memory, conversation_index, lock, last>>
    /\ ThFrame

\* clear_memory returns: the nested call leaves its with block and the loop goes on,
\* the public call goes to its own exit
ClExit(t) ==
    /\ th[t].pc = "cl_exit"
    /\ IF th[t].nested
       THEN /\ lock' = [lock EXCEPT !.count = @ - 1]
            /\ th' = [th EXCEPT ![t].pc = "ev_next", ![t].nested = FALSE]
       ELSE /\ UNCHANGED lock
            /\ Goto(t, "ret")
    /\ UNCHANGED <<memory, conversation_index, stats, last>>
    /\ ThFrame

\* store_conversation_id: create the entry or set its conversation_id
ScWrite(t) ==
    /\ th[t].pc = "sc_write"
    /\ memory' =
          IF ~Has(memory, th[t].pid)
          THEN Append(memory, MemoryEntry(th[t].pid, isoformat(now), <<>>, None, None,
                                          th[t].arg, <<"conversation_id_stored">>))
          ELSE SetField(memory, th[t].pid, "conversation_id", th[t].arg,
                        "conversation_id_stored")
    /\ Goto(t, "sc_index")
    /\ UNCHANGED <<conversation_index, stats, lock, last>>
    /\ ThFrame

\* store_conversation_id: update the conversation index
ScIndex(t) ==
    /\ th[t].pc = "sc_index"
    /\ LET c == th[t].arg[1]
           idx1 == IF c \notin DOMAIN conversation_index
                   THEN DictSet(conversation_index, c, <<>>) ELSE conversation_index
       IN conversation_index' =
             IF ~InList(idx1[c], th[t].pid)
             THEN DictSet(idx1, c, Append(idx1[c], th[t].pid)) ELSE idx1
    /\ Goto(t, "sc_stats")
    /\ UNCHANGED <<memory, stats, lock, last>>
    /\ ThFrame

\* store_conversation_id: self._update_stats(); return True
ScStats(t) ==
    /\ th[t].pc = "sc_stats"
    /\ stats' = update_stats(Cur, now).stats
    /\ GotoRet(t, "ret", TRUE)
    /\ UNCHANGED <<memory, conversation_index, lock, last>>
    /\ ThFrame

\* get_metadata: the body
GmRead(t) ==
    /\ th[t].pc = "gm_read"
    /\ GotoRet(t, "ret", get_metadata_fn(Cur, th[t].pid).ret)
    /\ UNCHANGED <<memory, conversation_index, stats, lock, last>>
    /\ ThFrame

\* the with block of the public method is left and the call returns
Release(t) ==
    /\ th[t].pc = "ret"
    /\ lock' = IF lock.count <= 1 THEN [owner |-> 0, count |-> 0]
               ELSE [lock EXCEPT !.count = @ - 1]
    /\ th' = [th EXCEPT ![t] = [Idle EXCEPT !.calls = th[t].calls]]
    /\ last' = Call(th[t].op, th[t].pid, th[t].arg, th[t].ret, "", NoRetention, {})
    /\ UNCHANGED <<memory, conversation_index, stats>>
    /\ ThFrame

(* --------------------------- specifications ---------------------------- *)
\* SharedMemory.__init__(max_entries, cleanup_hours) at time 0
Construct(maxes, hours) ==
    /\ memory = <<>>
    /\ conversation_index = <<>>
    /\ max_entries \in maxes
    /\ cleanup_hours \in hours
    /\ now = 0
    /\ stats = [total_entries |-> 0, active_conversations |-> 0,
                last_cleanup |-> isoformat(0), last_update |-> None]
    /\ last = Call("init", 0, None, None, "", NoRetention, {})
    /\ writes = <<>>
    /\ lock = [owner |-> 0, count |-> 0]
    /\ th = [t \in Threads |-> Idle]
    /\ held = None
    /\ shared = [content |-> MdA1, holders |-> {}]
    /\ pipe = <<>>
    /\ gemini = [request_times |-> <<>>, sleeping |-> <<>>, admitted |-> <<>>, clock |-> 0]

\* a write to p is issued only while its entry has room for another history tag
CanWrite(p, n) == IF Has(memory, p) THEN Len(Entry(memory, p).agent_history) < n ELSE TRUE

\* Spec: two processing ids, two conversations, every write and both deletions,
\* all within one clock tick
Init == Construct({1, 2}, {1})

Next ==
    \/ \E p \in ProcIds : CanWrite(p, MaxHistory) /\ store_metadata(p, MdA1)
    \/ \E p \in ProcIds : CanWrite(p, MaxHistory) /\ store_classification(p, ClOrder)
    \/ \E p \in ProcIds : CanWrite(p, MaxHistory) /\ store_extracted_data(p, ExTotal)
    \/ \E p \in ProcIds, c \in ConvIds : CanWrite(p, MaxHistory) /\ store_conversation_id(p, c)
    \/ \E p \in ProcIds : clear_memory(p)
    \/ clear_all_memory

Spec == Init /\ [][Next]_vars

\* SpecOne: one processing id, every argument value, every read, the clock running
InitOne == Construct({1}, {1})

NextOne ==
    \/ \E md \in MetadataInputs : CanWrite(1, MaxHistory) /\ store_metadata(1, md)
    \/ \E c \in ClassificationInputs : CanWrite(1, MaxHistory) /\ store_classification(1, c)
    \/ \E e \in ExtractedInputs : CanWrite(1, MaxHistory) /\ store_extracted_data(1, e)
    \/ \E c \in ConvIdsAny : CanWrite(1, MaxHistory) /\ store_conversation_id(1, c)
    \/ clear_memory(1)
    \/ clear_all_memory
    \/ get_memory(1)
    \/ get_metadata(1)
    \/ get_classification(1)
    \/ get_extracted_data(1)
    \/ now < MaxClock /\ Tick

SpecOne == InitOne /\ [][NextOne]_vars

\* SpecAge: two processing ids written over several hours
InitAge == Construct({1, 2}, {1})

NextAge ==
    \/ \E p \in ProcIds : CanWrite(p, MaxHistory) /\ store_metadata(p, MdA1)
    \/ \E p \in ProcIds : CanWrite(p, MaxHistory) /\ store_classification(p, ClOrder)
    \/ \E p \in ProcIds : CanWrite(p, MaxHistory) /\ store_conversation_id(p, "c1")
    \/ now < MaxClock /\ Tick

SpecAge == InitAge /\ [][NextAge]_vars

\* SpecCap: bulk intake, every document under a fresh processing id
FreshId == IF memory = <<>> THEN 1 ELSE 1 + memory[Len(memory)].processing_id

InitCap == Construct({2, EvictionBuffer + 1, EvictionBuffer + 2}, {1})

NextCap ==
    \/ FreshId <= MaxFill /\ store_metadata(FreshId, MdA1)
    \/ /\ FreshId <= MaxFill
       /\ Len(memory) \in {max_entries, max_entries + 1}
       /\ store_classification(FreshId, ClOrder)
    \/ now = 0 /\ Len(memory) \in {1, max_entries} /\ Tick

SpecCap == InitCap /\ [][NextCap]_vars

\* SpecSweep: a store that lives long enough for several age sweeps, with a sweep
\* interval of one hour and with a zero interval
InitSweep == Construct({2}, {0, 1})

NextSweep ==
    \/ \E p \in ProcIds : CanWrite(p, MaxHistory) /\ store_metadata(p, MdA1)
    \/ \E p \in ProcIds : CanWrite(p, MaxHistory) /\ store_extracted_data(p, ExTotal)
    \/ \E p \in ProcIds : clear_memory(p)
    \/ now < SweepClock /\ Tick

SpecSweep == InitSweep /\ [][NextSweep]_vars

\* SpecFlow: two documents go through the intake (metadata, classification,
\* conversation id), conversations are listed, Records read and deleted
InitFlow == Construct({2}, {1})

NextFlow ==
    \/ \E p \in ProcIds : ~Has(memory, p) /\ store_metadata(p, MdA1)
    \/ \E p \in ProcIds : CanWrite(p, FlowHistory - 1) /\ store_classification(p, ClOrder)
    \/ \E p \in ProcIds, c \in ConvIds : CanWrite(p, FlowHistory) /\ store_conversation_id(p, c)
    \/ \E p \in ProcIds : clear_memory(p)
    \/ \E c \in ConvIds : get_conversation_history(c)
    \/ \E p \in ProcIds : get_memory(p)
    \/ now < FlowClock /\ Tick

SpecFlow == InitFlow /\ [][NextFlow]_vars

\* SpecThreads: two threads call the store concurrently, a table of one entry
InitThreads == Construct({1}, {1})

NextThreads ==
    \E t \in Threads :
        \/ \E p \in ProcIds : Invoke(t, "store_metadata", p, Some(MdA1))
        \/ \E p \in ProcIds : Invoke(t, "store_conversation_id", p, Some("c1"))
        \/ \E p \in ProcIds : Invoke(t, "clear_memory", p, None)
        \/ \E p \in ProcIds : Invoke(t, "get_metadata", p, None)
        \/ Acquire(t)
        \/ SmWrite(t) \/ SmStats(t) \/ SmCap(t) \/ SmSweep(t)
        \/ EvNext(t) \/ EvDone(t)
        \/ ClCheck(t) \/ ClIndex(t) \/ ClDel(t) \/ ClStats(t) \/ ClExit(t)
        \/ ScWrite(t) \/ ScIndex(t) \/ ScStats(t)
        \/ GmRead(t)
        \/ Release(t)

SpecThreads == InitThreads /\ [][NextThreads]_vars

\* the statements of the call thread t is executing (everything but starting a call)
ThreadStep(t) ==
    \/ Acquire(t)
    \/ SmWrite(t) \/ SmStats(t) \/ SmCap(t) \/ SmSweep(t)
    \/ EvNext(t) \/ EvDone(t)
    \/ ClCheck(t) \/ ClIndex(t) \/ ClDel(t) \/ ClStats(t) \/ ClExit(t)
    \/ ScWrite(t) \/ ScIndex(t) \/ ScStats(t)
    \/ GmRead(t)
    \/ Release(t)

\* SpecThreadsFair: SpecThreads under a fair scheduler: a thread whose next statement
\* stays executable is eventually run.  No statement of the store waits for anything
\* but the lock, and each caller makes finitely many calls, so a thread waiting for the
\* lock finds it free from some point on.  (Every statement moves the thread's pc.)
SpecThreadsFair ==
    InitThreads /\ [][NextThreads]_vars /\ \A t \in Threads : WF_(th[t].pc)(ThreadStep(t))

\* SpecAll: a monitor reads the whole store while documents are written and deleted,
\* the table limited to one entry
InitAll == Construct({1}, {1})

NextAll ==
    \/ \E p \in ProcIds : CanWrite(p, MaxHistory) /\ store_metadata(p, MdA1)
    \/ \E p \in ProcIds : CanWrite(p, MaxHistory) /\ store_classification(p, ClOrder)
    \/ \E p \in ProcIds : CanWrite(p, MaxHistory) /\ store_conversation_id(p, "c1")
    \/ \E p \in ProcIds : clear_memory(p)
    \/ clear_all_memory
    \/ get_all_memory

SpecAll == InitAll /\ [][NextAll]_vars

\* SpecArgs: the four writes and clear_memory, store_conversation_id also called with a
\* conversation id that is not hashable
InitArgs == Construct({2}, {1})

NextArgs ==
    \/ \E p \in ProcIds : CanWrite(p, MaxHistory) /\ store_metadata(p, MdA1)
    \/ \E p \in ProcIds : CanWrite(p, MaxHistory) /\ store_classification(p, ClOrder)
    \/ \E p \in ProcIds : CanWrite(p, MaxHistory) /\ store_extracted_data(p, ExTotal)
    \/ \E p \in ProcIds, c \in {"c1", Unhashable} :
          CanWrite(p, MaxHistory) /\ store_conversation_id(p, c)
    \/ \E p \in ProcIds : clear_memory(p)

SpecArgs == InitArgs /\ [][NextArgs]_vars

\* SpecCorrupt: Records whose timestamps were damaged from outside meet the age sweep
\* (the table is large enough for the capacity trigger never to fire)
InitCorrupt == Construct({2}, {1})

NextCorrupt ==
    \/ \E p \in ProcIds : CanWrite(p, MaxHistory) /\ store_metadata(p, MdA1)
    \/ \E p \in ProcIds, v \in {Unparseable, OffsetAware} : Corrupt(p, v)
    \/ now < MaxClock /\ Tick

SpecCorrupt == InitCorrupt /\ [][NextCorrupt]_vars

\* SpecAlias: a caller describes two documents with one dict object and later adds a
\* key to the metadata of one of them
InitAlias == Construct({2}, {1})

NextAlias ==
    \/ \E p \in ProcIds : CanWrite(p, MaxHistory) /\ store_metadata_kept(p)
    \/ \E p \in ProcIds : CanWrite(p, MaxHistory) /\ store_metadata(p, [k \in {"b"} |-> 2])
    \/ \E p \in ProcIds : CanWrite(p, MaxHistory) /\ store_classification(p, ClOrder)
    \/ \E p \in ProcIds : clear_memory(p)

SpecAlias == InitAlias /\ [][NextAlias]_vars

(* ------------------- the document pipeline (src/main.py) --------------- *)
\* process_text and process_file are coroutines on one event loop: a run is interrupted
\* only at an await, and every await of a run lies inside classify or inside an agent,
\* before that stage's store calls.  A run is therefore three atomic steps: the
\* endpoint up to its first await, classify, and the agent it is routed to.

\* what _detect_format returns
Formats == {"json", "email", "pdf", "text"}
\* what _classify_intent returns ("unknown": no keyword and the AI call failed)
Intents == {"order", "unknown"}

\* ClassificationResult(format=..., intent=..., confidence=...), confidence in tenths;
\* its timestamp and error fields are read neither by the store nor by the routing
ClassificationResult(format, intent, confidence) ==
    [format |-> format, intent |-> intent, confidence |-> confidence]

\* what the try block of classify computes for a document
Detections == { ClassificationResult(f, i, 8) : f \in Formats, i \in Intents }

FallbackClassification == ClassificationResult("unknown", "unknown", 0)

\* classify that returns the fallback without storing it
classify_fn_ReturnOnly(S, p, detected, t) ==
    IF detected = None THEN [store |-> S, ret |-> FallbackClassification]
    ELSE [store |-> store_classification_fn(S, p, detected[1], t).store, ret |-> detected[1]]

\* ClassifierAgent.classify; detected: the ClassificationResult built in the try block,
\* None when something in the try block raised
classify_fn(S, p, detected, t) ==
    LET classification == IF detected # None THEN detected[1] ELSE FallbackClassification
    IN [store |-> store_classification_fn(S, p, classification, t).store,
        ret |-> classification]

\* answers of the AI service to the email agent's "Respond with valid JSON only"
AiAnswers == {"{\"intent\": \"order\"}", "[]", "sorry"}

\* json.loads(response): the type of the value, or the exception
json_loads(response) ==
    IF response = "[]" THEN "list"
    ELSE IF response = "sorry" THEN "JSONDecodeError"
    ELSE "dict"

\* JSONAgent.process for a document classify found to be JSON: the store afterwards,
\* the status of the result and the store writes made
json_agent_process_fn(S, p, formatted_data, t) ==
    [store |-> store_extracted_data_fn(S, p, formatted_data, t).store,
     status |-> "processed", calls |-> <<"store_extracted_data">>]

\* EmailAgent.process; response: the AI's answer in _analyze_intent_and_request
email_agent_process_fn(S, p, response, crm_record, conversation_id, t) ==
    IF json_loads(response) = "list"
    THEN \* intent_analysis is a list: intent_analysis.get(...) in _create_crm_record
         \* raises AttributeError, caught by "except Exception": error result
         [store |-> S, status |-> "error", calls |-> <<>>]
    ELSE Bind(store_extracted_data_fn(S, p, crm_record, t).store,
              LAMBDA S1 : [store |-> store_conversation_id_fn(S1, p, conversation_id, t).store,
                           status |-> "processed",
                           calls |-> <<"store_extracted_data", "store_conversation_id">>])

\* "if classification.format == 'json' ... elif ... == 'email' ... else"
Route(format) ==
    IF format = "json" THEN "json_agent"
    ELSE IF format = "email" THEN "email_agent"
    ELSE "done"

\* the store and the write counters after a stage of run p that made k store writes
PipeInstall(S, p, k) ==
    /\ memory' = S.memory
    /\ conversation_index' = S.conversation_index
    /\ stats' = S.stats
    /\ shared' = [shared EXCEPT !.holders = @ \cap Keys(S.memory)]
    /\ writes' = [q \in Keys(S.memory) |->
                     IF q = p THEN (IF Has(memory, p) THEN writes[p] ELSE 0) + k
                     ELSE writes[q]]
    /\ UNCHANGED <<max_entries, cleanup_hours, now, lock, th, held, gemini>>

\* process_text up to "await classifier_agent.classify": a fresh processing id, the
\* metadata dict built for this request, store_metadata
process_text(md) ==
    \E p \in {Len(pipe) + 1} :
       \E r \in {store_metadata_fn(Cur, p, md, now, max_entries, cleanup_hours)} :
          /\ PipeInstall(r.store, p, 1)
          /\ last' = Call("store_metadata", p, Some(md), r.ret, "", r.obs, {})
          /\ pipe' = Append(pipe, [pc |-> "classify", metadata |-> md,
                                   classification |-> None, failed |-> FALSE,
                                   extracted_data |-> None, conversation_id |-> None,
                                   log |-> <<"store_metadata">>])

\* "classification = await classifier_agent.classify(...)" and the routing
classify(p, detected) ==
    /\ p \in 1..Len(pipe)
    /\ pipe[p].pc = "classify"
    /\ \E r \in {classify_fn(Cur, p, detected, now)} :
          /\ PipeInstall(r.store, p, 1)
          /\ last' = Call("store_classification", p, Some(r.ret), TRUE, "", NoRetention, {})
          /\ pipe' = [pipe EXCEPT ![p] =
                         [@ EXCEPT !.pc = Route(r.ret.format),
                                   !.classification = Some(r.ret),
                                   !.failed = (detected = None),
                                   !.log = Append(@, "store_classification")]]

\* "result = await json_agent.process(...)"
json_agent_process(p, formatted_data) ==
    /\ p \in 1..Len(pipe)
    /\ pipe[p].pc = "json_agent"
    /\ \E r \in {json_agent_process_fn(Cur, p, formatted_data, now)} :
          /\ PipeInstall(r.store, p, Len(r.calls))
          /\ last' = Call("store_extracted_data", p, Some(formatted_data), TRUE, "",
                          NoRetention, {})
          /\ pipe' = [pipe EXCEPT ![p] =
                         [@ EXCEPT !.pc = "done",
                                   !.extracted_data = Some(formatted_data),
                                   !.log = @ \o r.calls]]

\* "result = await email_agent.process(...)"
email_agent_process(p, response, crm_record, conversation_id) ==
    /\ p \in 1..Len(pipe)
    /\ pipe[p].pc = "email_agent"
    /\ \E r \in {email_agent_process_fn(Cur, p, response, crm_record, conversation_id, now)} :
          /\ PipeInstall(r.store, p, Len(r.calls))
          /\ last' = IF r.status = "error" THEN last
                     ELSE Call("store_conversation_id", p, Some(conversation_id), TRUE, "",
                               NoRetention, {})
          /\ pipe' = [pipe EXCEPT ![p] =
                         [@ EXCEPT !.pc = "done",
                                   !.extracted_data =
                                       IF r.status = "error" THEN None ELSE Some(crm_record),
                                   !.conversation_id =
                                       IF r.status = "error" THEN None
                                       ELSE Some(conversation_id),
                                   !.log = @ \o r.calls]]

\* SpecPipe: the store of main.py ("shared_memory = SharedMemory()": 1000 entries,
\* 24 hours) and a few requests in flight at once
InitPipe == Construct({1000}, {24})

NextPipe ==
    \/ Len(pipe) < MaxPipes /\ process_text(MdA1)
    \/ \E p \in 1..Len(pipe), d \in Detections : classify(p, Some(d))
    \/ \E p \in 1..Len(pipe) : classify(p, None)
    \/ \E p \in 1..Len(pipe) : json_agent_process(p, ExTotal)
    \/ \E p \in 1..Len(pipe), a \in AiAnswers, c \in ConvIds :
          email_agent_process(p, a, ExTotal, c)

SpecPipe == InitPipe /\ [][NextPipe]_vars

\* SpecBurst: a burst of requests.  The first document waits for the AI service while
\* the later ones, plain text whose intent is found by keyword (no AI call), go
\* through one after the other.  The store is given the smallest capacity at which
\* eviction leaves a Record (max_entries = buffer + 1) in place of main.py's 1000;
\* _cleanup_old_entries depends on max_entries only through len - max_entries + 100.
BurstCapacity == EvictionBuffer + 1

InitBurst == Construct({BurstCapacity}, {24})

NextBurst ==
    \/ /\ Len(pipe) < MaxFill
       /\ \A q \in 2..Len(pipe) : pipe[q].pc = "done"
       /\ process_text(MdA1)
    \/ \E f \in {"json", "email", "text"} :
          classify(1, Some(ClassificationResult(f, "order", 8)))
    \/ \E p \in 2..Len(pipe) : classify(p, Some(ClassificationResult("text", "order", 8)))
    \/ json_agent_process(1, ExTotal)
    \/ email_agent_process(1, "sorry", ExTotal, "c1")

SpecBurst == InitBurst /\ [][NextBurst]_vars

(* ----------------------- the HTTP layer (src/main.py) ------------------ *)
HttpOps == {"GET /memory/{id}", "DELETE /memory/{id}"}

\* GET /memory/{processing_id}: the status of the response, what the store call returned
\* and the exception it raised
get_memory_endpoint_fn(S, p) ==
    LET r == get_memory_fn(S, p)
    IN [returned |-> r.ret, raised |-> r.raised,
        status |-> IF r.raised # "" THEN 500            \* except Exception: 500
                   ELSE IF r.ret = None
                   THEN \* "raise HTTPException(status_code=404)" stands inside the try
                        \* block and HTTPException is an Exception: the handler below
                        \* catches it and raises HTTPException(status_code=500)
                        500
                   ELSE 200]

\* DELETE /memory/{processing_id}; clear_memory catches its own exceptions
clear_memory_endpoint_fn(S, p, t) ==
    LET r == clear_memory_fn(S, p, t)
    IN [store |-> r.store, returned |-> r.ret, raised |-> "", pruned |-> r.pruned,
        status |-> IF ~r.ret THEN 500        \* the 404 raised in the try block, caught
                   ELSE 200]

\* a request; last keeps the status as ret and the store call's return value as arg
http_get_memory(p) ==
    \E r \in {get_memory_endpoint_fn(Cur, p)} :
       /\ last' = Call("GET /memory/{id}", p, Some(r.returned), r.status, r.raised,
                       NoRetention, {})
       /\ UNCHANGED <<memory, conversation_index, stats, max_entries, cleanup_hours, now,
                      writes, lock, th, held, shared, pipe, gemini>>

http_clear_memory(p) ==
    \E r \in {clear_memory_endpoint_fn(Cur, p, now)} :
       /\ Install(r.store)
       /\ writes' = CountWrites(r.store.memory, 0)
       /\ last' = Call("DELETE /memory/{id}", p, Some(r.returned), r.status, r.raised,
                       NoRetention, r.pruned)

\* SpecHttp: Records are written, read and deleted over HTTP
InitHttp == Construct({2}, {1})

NextHttp ==
    \/ \E p \in ProcIds : CanWrite(p, MaxHistory) /\ store_metadata(p, MdA1)
    \/ \E p \in ProcIds : CanWrite(p, MaxHistory) /\ store_classification(p, ClOrder)
    \/ \E p \in ProcIds, c \in ConvIds : CanWrite(p, MaxHistory) /\ store_conversation_id(p, c)
    \/ \E p \in ProcIds : http_get_memory(p)
    \/ \E p \in ProcIds : http_clear_memory(p)

SpecHttp == InitHttp /\ [][NextHttp]_vars

(* --------------- the AI service's rate limiter (GeminiService) --------- *)
\* self.requests_per_minute = 60
requests_per_minute == 60
\* the 60 seconds of "(current_time - req_time).total_seconds() < 60" and of wait_time
RateWindow == 60

\* min(self.request_times)
MinOf(l) == CHOOSE x \in { l[i] : i \in 1..Len(l) } : \A j \in 1..Len(l) : x <= l[j]

\* _check_rate_limit from its first statement to "await asyncio.sleep(wait_time)" or,
\* when it does not sleep, to its end; no await lies in between
check_rate_limit_fn(g) ==
    LET current_time == g.clock
        pruned == SelectSeq(g.request_times, LAMBDA req_time : current_time - req_time < RateWindow)
        wait_time == RateWindow - (current_time - MinOf(pruned))
    IN IF Len(pruned) >= requests_per_minute /\ wait_time > 0
       THEN [g EXCEPT !.request_times = pruned,
                      !.sleeping = Append(@, [current_time |-> current_time,
                                              wake |-> g.clock + wait_time])]
       ELSE [g EXCEPT !.request_times = Append(pruned, current_time),
                      !.admitted = Append(@, g.clock)]

\* the rest of _check_rate_limit for the sleeper i, once its sleep is over:
\* "self.request_times.append(current_time)" with the current_time read on entry, and
\* the return to generate_response, which sends the request
resume_fn(g, i) ==
    [g EXCEPT !.request_times = Append(@, g.sleeping[i].current_time),
              !.admitted = Append(@, g.clock),
              !.sleeping = [k \in 1..(Len(@) - 1) |-> IF k < i THEN @[k] ELSE @[k + 1]]]

GeminiFrame ==
    UNCHANGED <<memory, conversation_index, stats, max_entries, cleanup_hours, now, last,
                writes, lock, th, held, shared, pipe>>

\* a caller enters generate_response: "await self._check_rate_limit()"
generate_response ==
    /\ Len(gemini.admitted) + Len(gemini.sleeping) < MaxRequests
    /\ gemini' = check_rate_limit_fn(gemini)
    /\ GeminiFrame

\* asyncio.sleep(wait_time) returns for a sleeper whose time has come
resume(i) ==
    /\ i \in 1..Len(gemini.sleeping)
    /\ gemini.sleeping[i].wake <= gemini.clock
    /\ gemini' = resume_fn(gemini, i)
    /\ GeminiFrame

\* the seconds at which calls are made
CallTimes == {0, 59, 60}

\* time passes until the next of them
advance ==
    /\ \E t \in CallTimes : t > gemini.clock
    /\ gemini' = [gemini EXCEPT !.clock =
                     CHOOSE t \in CallTimes : t > @ /\ \A u \in CallTimes : u > @ => t <= u]
    /\ GeminiFrame

\* SpecGemini: concurrent calls of generate_response on one event loop
InitGemini == Construct({1000}, {24})

NextGemini ==
    \/ generate_response
    \/ \E i \in 1..Len(gemini.sleeping) : resume(i)
    \/ advance

SpecGemini == InitGemini /\ [][NextGemini]_vars

(* ------------------------------- claims -------------------------------- *)
\* the call in last is a write that returned True
WriteReturnedTrue == last.op \in WriteOps /\ last.ret = TRUE
\* the entries stored under processing id p
RecordsOf(p) == { i \in 1..Len(memory) : memory[i].processing_id = p }

\* C1: after a write to a processing id has returned success, exactly one Record
\* with that id exists (created when the id was unseen, mutated in place when known).
C1_ExactlyOneRecordAfterWrite ==
    WriteReturnedTrue => Cardinality(RecordsOf(last.pid)) = 1

\* the tag a write of kind op appends, on an entry that existed before or not
TagOf(op, existed) ==
    CASE op = "store_metadata" -> IF existed THEN "metadata_updated" ELSE "metadata_stored"
      [] op = "store_classification" -> "classification_stored"
      [] op = "store_extracted_data" -> "data_extracted"
      [] op = "store_conversation_id" -> "conversation_id_stored"

\* C2: the history is append-only: a successful write appends exactly one tag naming
\* its kind ("metadata_stored" on creation, "metadata_updated" on update) to the entry
\* it writes, the tags of every other surviving entry stay as they were, and in the
\* state reached each history is as long as the number of writes applied to its entry.
C2_HistoryAppendOnly ==
    [][ /\ \A p \in Keys(memory') :
            LET new == Entry(memory', p).agent_history
            IN IF last'.op \in WriteOps /\ last'.ret = TRUE /\ last'.pid = p
               THEN IF Has(memory, p)
                    THEN new = Append(Entry(memory, p).agent_history, TagOf(last'.op, TRUE))
                    ELSE new = <<TagOf(last'.op, FALSE)>>
               ELSE Has(memory, p) /\ new = Entry(memory, p).agent_history
        /\ \A i \in 1..Len(memory') :
            Len(memory'[i].agent_history) = writes'[memory'[i].processing_id]
      ]_vars

\* C2 witness: an entry created by a classification write and then updated by a metadata write
C2_Witness ==
    \E i \in 1..Len(memory) :
        /\ memory[i].agent_history = <<"classification_stored", "metadata_updated">>
        /\ writes[memory[i].processing_id] = 2

\* C3: read-your-write: right after a put* returned success, the matching read of the
\* same id returns what was written (for metadata: every key written, with its value;
\* for the conversation id: the Record's conversation_id field).
C3_ReadYourWrite ==
    WriteReturnedTrue =>
        CASE last.op = "store_metadata" ->
                LET got == get_metadata_fn(Cur, last.pid).ret
                IN /\ got # None
                   /\ \A k \in DOMAIN last.arg[1] :
                        k \in DOMAIN got[1] /\ got[1][k] = last.arg[1][k]
          [] last.op = "store_classification" ->
                get_classification_fn(Cur, last.pid).ret = last.arg
          [] last.op = "store_extracted_data" ->
                get_extracted_data_fn(Cur, last.pid).ret = last.arg
          [] last.op = "store_conversation_id" ->
                Has(memory, last.pid) /\ Entry(memory, last.pid).conversation_id = last.arg

\* C4: index consistency: every processing id listed in a conversation bucket has a
\* live Record.
C4_IndexConsistent ==
    \A c \in DOMAIN conversation_index :
        \A i \in 1..Len(conversation_index[c]) : Has(memory, conversation_index[c][i])

\* the buckets that list processing id p
BucketsOf(p) == { c \in DOMAIN conversation_index : InList(conversation_index[c], p) }

\* C5: a processing id is listed in at most one conversation bucket.
C5_AtMostOneBucket ==
    \A p \in ProcIds : Cardinality(BucketsOf(p)) <= 1

\* C6: no bucket of the conversation index is empty; the deletion that removes a
\* bucket's last member removes the bucket.
C6_NoEmptyBucket ==
    \A c \in DOMAIN conversation_index : conversation_index[c] # <<>>

\* C6 witness: a delete has just pruned a bucket while another bucket is still listed
C6_Witness ==
    /\ last.op = "clear_memory" /\ last.ret = TRUE
    /\ last.pruned # {}
    /\ DOMAIN conversation_index # {}

\* C7: after any successful write the table holds at most max_entries Records.
C7_CapacityBound ==
    WriteReturnedTrue => Len(memory) <= max_entries

\* C8: the retention pass is evaluated by every successful write of each of the four
\* kinds and by no read.
C8_RetentionAfterEveryWrite ==
    /\ WriteReturnedTrue => last.obs.evaluated
    /\ last.op \in ReadOps => ~last.obs.evaluated

\* the Records the capacity trigger of the call in last removed, as (id, timestamp) pairs
CapEvicted == last.obs.pre \ last.obs.mid
\* no Record that survived the capacity trigger is older than one it evicted
OldestEvicted ==
    /\ last.obs.mid \subseteq last.obs.pre
    /\ \A e \in CapEvicted : \A s \in last.obs.mid :
            fromisoformat(e[2]) <= fromisoformat(s[2])

SweepEvicted == last.obs.mid \ last.obs.post

\* C10: right after an age sweep no Record created before now - max age is left in
\* the table, and the sweep removed no Record created at or after that cutoff.
C10_AgeExpiry ==
    last.obs.sweep =>
        LET cutoff == now - timedelta(cleanup_hours)
        IN /\ Stamps(memory) = last.obs.post
           /\ last.obs.post \subseteq last.obs.mid
           /\ \A i \in 1..Len(memory) : fromisoformat(memory[i].timestamp) >= cutoff
           /\ \A e \in SweepEvicted : fromisoformat(e[2]) < cutoff

\* C10 witness: a sweep evicted one Record and kept another, created exactly at the cutoff
C10_Witness ==
    /\ last.obs.sweep
    /\ SweepEvicted # {}
    /\ \E i \in 1..Len(memory) :
          fromisoformat(memory[i].timestamp) = now - timedelta(cleanup_hours)

\* C11: an age sweep runs only inside a write, and only when more time than the
\* cleanup interval has passed since the last sweep (the construction time before the
\* first one); the sweep sets last_cleanup to the current time whether or not it
\* evicts, and no other step changes last_cleanup: two consecutive sweeps are more
\* than the interval apart.
C11_SweepSpacing ==
    [][ IF last'.obs.sweep
        THEN /\ last'.op \in WriteOps
             /\ now' - fromisoformat(stats.last_cleanup) > timedelta(cleanup_hours)
             /\ stats'.last_cleanup = isoformat(now')
             /\ last'.obs.since = Some(stats.last_cleanup)
             /\ fromisoformat(stats'.last_cleanup) - fromisoformat(last'.obs.since[1])
                    > timedelta(cleanup_hours)
        ELSE stats'.last_cleanup = stats.last_cleanup
      ]_vars

\* C11 witness: a sweep that follows an earlier sweep, one hour interval, evicting nothing
C11_Witness ==
    /\ last.obs.sweep
    /\ cleanup_hours = 1
    /\ last.obs.since # Some(isoformat(0))
    /\ last.obs.mid = last.obs.post
    /\ stats.last_cleanup = isoformat(now)

\* the call in last ran a retention pass that evicted at least one Record
Evicted == last.obs.evaluated /\ last.obs.pre # last.obs.post

\* C12: eviction by either trigger unregisters the evicted Record as delete(id) does:
\* right after a write whose retention pass evicted, every id listed in the
\* conversation index has a live Record and no bucket is empty.
C12_EvictionKeepsIndex ==
    Evicted =>
        \A c \in DOMAIN conversation_index :
            /\ conversation_index[c] # <<>>
            /\ \A i \in 1..Len(conversation_index[c]) : Has(memory, conversation_index[c][i])

\* C13: clear_memory on a known id returns True, removes the Record (get_memory then
\* returns None), leaves every other Record in place and, when the Record had a
\* conversation_id, removes the id from that conversation's bucket and deletes the
\* bucket if it became empty.
C13_DeleteKnown ==
    [][ (last'.op = "clear_memory" /\ Has(memory, last'.pid)) =>
            LET p == last'.pid
                conv == Entry(memory, p).conversation_id
            IN /\ last'.ret = TRUE
               /\ memory' = DelKey(memory, p)
               /\ get_memory_fn(Cur', p) = [ret |-> None, raised |-> ""]
               /\ conv # None =>
                     IF conv[1] \in DOMAIN conversation_index'
                     THEN /\ ~InList(conversation_index'[conv[1]], p)
                          /\ conversation_index'[conv[1]] # <<>>
                     ELSE TRUE
      ]_vars

\* C14: a read (get_memory, get_metadata, get_classification, get_extracted_data) or a
\* clear_memory of an id that has no Record returns None / False, raises nothing and
\* leaves the table, the conversation index and the statistics as they were.
C14_UnknownIdIsAbsent ==
    [][ (last'.op \in ReadOps \cup {"clear_memory"} /\ ~Has(memory, last'.pid)) =>
            /\ last'.raised = ""
            /\ last'.ret = (IF last'.op = "clear_memory" THEN FALSE ELSE None)
            /\ UNCHANGED <<memory, conversation_index, stats>>
      ]_vars

\* C14 witness: a clear_memory of an unknown id in a store that was written earlier
C14_Witness ==
    /\ last.op = "clear_memory" /\ last.ret = FALSE
    /\ ~Has(memory, last.pid)
    /\ stats.last_update \notin {None, Some(isoformat(now))}

\* the table holds exactly the Record of the scenario: id 1 written by store_metadata,
\* store_classification(order) and store_conversation_id("c1"), in that order
ScenarioStored ==
    /\ Len(memory) = 1
    /\ memory[1].processing_id = 1
    /\ memory[1].agent_history =
            <<"metadata_stored", "classification_stored", "conversation_id_stored">>
    /\ memory[1].classification = Some(ClOrder)
    /\ memory[1].conversation_id = Some("c1")

\* C15: end to end: after store_metadata, store_classification(format json, intent
\* order, confidence 0.8) and store_conversation_id("c1") for one id,
\* get_conversation_history("c1") returns exactly one record, with that processing id
\* and classification intent order; after clear_memory of the id,
\* get_conversation_history("c1") returns the empty list and get_memory returns None.
C15_EndToEnd ==
    /\ (last.op = "get_conversation_history" /\ last.arg = Some("c1") /\ ScenarioStored) =>
            /\ last.raised = ""
            /\ Len(last.ret) = 1
            /\ last.ret[1].processing_id = 1
            /\ last.ret[1].classification # None
            /\ last.ret[1].classification[1].intent = "order"
    /\ (last.op = "clear_memory" /\ last.pid = 1 /\ last.ret = TRUE /\ memory = <<>>) =>
            /\ get_conversation_history_fn(Cur, "c1") = [ret |-> <<>>, raised |-> ""]
            /\ get_memory_fn(Cur, 1) = [ret |-> None, raised |-> ""]

\* the ids of the Records whose conversation_id is c
MembersOf(mem, c) ==
    { mem[i].processing_id : i \in { j \in 1..Len(mem) : mem[j].conversation_id = Some(c) } }

\* C19: get_conversation_history(c) raises nothing and returns the Records of exactly
\* the live members of conversation c, each once, in ascending order of creation
\* time; for a conversation id without a bucket it returns the empty list and no
\* bucket exists for it afterwards.
C19_ConversationHistory ==
    last.op = "get_conversation_history" =>
        LET c == last.arg[1]
            ret == last.ret
        IN /\ last.raised = ""
           /\ { ret[i].processing_id : i \in 1..Len(ret) } = MembersOf(memory, c)
           /\ \A i \in 1..Len(ret) : ret[i] = Entry(memory, ret[i].processing_id)
           /\ Len(ret) = Cardinality(MembersOf(memory, c))
           /\ \A i, j \in 1..Len(ret) :
                 i < j => fromisoformat(ret[i].timestamp) <= fromisoformat(ret[j].timestamp)
           /\ MembersOf(memory, c) = {} => ret = <<>>

C18_PayloadReplace ==
    [][ (last'.op \in {"store_classification", "store_extracted_data"}
            /\ Has(memory, last'.pid)) =>
            LET p == last'.pid
                old == Entry(memory, p)
                own == IF last'.op = "store_classification" THEN "classification"
                       ELSE "extracted_data"
            IN /\ Has(memory', p)
               /\ Entry(memory', p)[own] = last'.arg
               /\ \A f \in {"processing_id", "timestamp", "metadata", "classification",
                              "extracted_data", "conversation_id"} \ {own} :
                     Entry(memory', p)[f] = old[f]
      ]_vars

\* C18 witness: an extracted_data payload replaced by the empty dict
C18_Witness ==
    /\ last.op = "store_extracted_data" /\ last.arg = Some(<<>>)
    /\ Has(memory, last.pid)
    /\ Entry(memory, last.pid).agent_history = <<"data_extracted", "data_extracted">>
    /\ Entry(memory, last.pid).extracted_data = Some(<<>>)

\* the field reads
FieldReads == {"get_metadata", "get_classification", "get_extracted_data"}

\* C20: a field read of an id that has a Record never returns the result the same read
\* gives for an id without a Record, also when the field is empty or was never written.
C20_AbsentDistinct ==
    (last.op \in FieldReads /\ Has(memory, last.pid)) => last.ret # None

\* the thread is inside a with self._lock block
Inside(t) == th[t].pc \notin {"idle", "lock"}

\* the method of call c applied as one step to store S: the store and the value returned
Sequential(c, S) ==
    CASE c.op = "store_metadata" ->
            LET r == store_metadata_fn(S, c.pid, c.arg[1], now, max_entries, cleanup_hours)
            IN [store |-> r.store, ret |-> r.ret]
      [] c.op = "store_conversation_id" ->
            LET r == store_conversation_id_fn(S, c.pid, c.arg[1], now)
            IN [store |-> r.store, ret |-> r.ret]
      [] c.op = "clear_memory" ->
            LET r == clear_memory_fn(S, c.pid, now)
            IN [store |-> r.store, ret |-> r.ret]
      [] c.op = "get_metadata" ->
            [store |-> S, ret |-> get_metadata_fn(S, c.pid).ret]

\* C16: the public operations are serialized by the one reentrant lock: at most one
\* thread is inside a method body and it owns the lock, only that thread changes the
\* table, the index or the statistics, and when a call returns, the store and the
\* returned value are those of the whole method applied in one step to the store as
\* it was when the call took the lock (the calls take effect in lock order).
C16_Serialized ==
    [][ /\ \A t1, t2 \in Threads : t1 # t2 => ~(Inside(t1) /\ Inside(t2))
        /\ \A t \in Threads : Inside(t) => (lock.owner = t /\ lock.count >= 1)
        /\ (memory' # memory \/ conversation_index' # conversation_index \/ stats' # stats) =>
              \E t \in Threads : Inside(t) /\ lock.owner = t /\ th'[t].pc # th[t].pc
        /\ \A t \in Threads :
              (th[t].pc = "ret" /\ th'[t].pc = "idle") =>
                  LET r == Sequential(th[t], th[t].snap[1])
                  IN /\ Cur = r.store
                     /\ last'.ret = r.ret
                     /\ lock'.owner = 0
      ]_vars

\* C16 witness: a call has returned, and one thread waits for the lock while the other
\* is inside the clear_memory its eviction loop called, holding the lock twice
C16_Witness ==
    /\ last.op \in {"store_metadata", "store_conversation_id", "clear_memory", "get_metadata"}
    /\ \E t1, t2 \in Threads :
          /\ th[t1].pc = "lock"
          /\ th[t2].pc = "cl_del" /\ th[t2].nested
          /\ lock = [owner |-> t2, count |-> 2]

\* the call in last changes the store when it is applied
MutatingOps == WriteOps \cup {"clear_memory", "clear_all_memory"}

\* C21: the statistics do not drift: after every mutating public call (a write with
\* whatever eviction it triggered, clear_memory, clear_all_memory) total_entries is the
\* number of Records in the table and active_conversations the number of buckets.
C21_StatsInSync ==
    last.op \in MutatingOps =>
        /\ stats.total_entries = Len(memory)
        /\ stats.active_conversations = Cardinality(DOMAIN conversation_index)

\* C21 witness: a write whose capacity trigger evicted Records, a bucket still listed
C21_Witness ==
    /\ last.op = "store_metadata" /\ last.obs.cap
    /\ Cardinality(last.obs.pre) = 2 /\ last.obs.post = {}
    /\ stats.total_entries = 0
    /\ stats.active_conversations = 1

\* C22: the three views returned by one get_all_memory call agree at the instant of
\* the call: the statistics' total_entries is the number of returned Records, its
\* active_conversations the number of returned buckets, and every id of a returned
\* bucket that has a live Record is among the returned Records.
C22_ViewsAgree ==
    (last.op = "get_all_memory" /\ last.raised = "") =>
        LET v == View(last.ret[1], Cur)
            returned == { v.entries[i].processing_id : i \in 1..Len(v.entries) }
        IN /\ v.statistics.total_entries = Len(v.entries)
           /\ v.statistics.active_conversations = Cardinality(DOMAIN v.conversation_index)
           /\ \A c \in DOMAIN v.conversation_index :
                 \A i \in 1..Len(v.conversation_index[c]) :
                    Has(memory, v.conversation_index[c][i]) =>
                        v.conversation_index[c][i] \in returned

\* C22 witness: a call that returned two Records and a bucket
C22_Witness ==
    /\ last.op = "get_all_memory" /\ last.raised = ""
    /\ Len(last.ret[1].entries) = 2
    /\ DOMAIN conversation_index # {}

\* C23: the value returned by get_all_memory is a snapshot: whatever the store does
\* after the call returned, the holder still reads in it the Records, the conversation
\* index and the statistics it read on return.
C23_Snapshot ==
    held # None =>
        LET v == View(held[1].value, Cur)
        IN /\ v.entries = held[1].seen.entries
           /\ v.statistics = held[1].seen.statistics
           /\ v.conversation_index = held[1].seen.conversation_index

\* C24: clear_all_memory returns True and leaves the entry table and the conversation
\* index empty and the statistics' entry and conversation counts at zero, whatever the
\* state before.
C24_ClearAll ==
    last.op = "clear_all_memory" =>
        /\ last.ret = TRUE /\ last.raised = ""
        /\ memory = <<>>
        /\ DOMAIN conversation_index = {}
        /\ stats.total_entries = 0
        /\ stats.active_conversations = 0

\* C24 witness: the call found two buckets and left the store empty
C24_Witness ==
    /\ last.op = "clear_all_memory"
    /\ Cardinality(last.pruned) = 2
    /\ memory = <<>>

\* C25: each of the four writes returns a boolean and lets no exception reach the
\* caller, whatever the arguments and the state before, and it returns True whenever
\* the write was applied (whenever the call changed the entry table or the index).
C25_WritesReport ==
    [][ last'.op \in WriteOps =>
           /\ last'.ret \in BOOLEAN
           /\ last'.raised = ""
           /\ (memory' # memory \/ DOMAIN conversation_index' # DOMAIN conversation_index)
                 => last'.ret = TRUE ]_vars

\* C26: a Record's timestamp is set once, to the clock at the write that creates the
\* Record, and no later call changes it while the Record stays in the table.
C26_TimestampOnce ==
    [][ \A p \in ProcIds :
          Has(memory', p) =>
             Entry(memory', p).timestamp =
                IF Has(memory, p) THEN Entry(memory, p).timestamp ELSE isoformat(now) ]_vars

\* C26 witness: a write has just updated a Record created at an earlier hour
C26_Witness ==
    /\ last.op \in WriteOps /\ last.ret = TRUE
    /\ Has(memory, last.pid)
    /\ Len(Entry(memory, last.pid).agent_history) = 2
    /\ Entry(memory, last.pid).timestamp # isoformat(now)

\* the ids the retention pass of the call in r removed
EvictedIds(r) == { x[1] : x \in r.obs.pre \ r.obs.post }

\* C27: a Record leaves the table only through clear_memory of its own id,
\* clear_all_memory, or an eviction by the retention pass that runs inside a write; no
\* read and no other step of a write removes a Record.
C27_OnlyDestructors ==
    [][ \A p \in Keys(memory) \ Keys(memory') :
          \/ last'.op = "clear_memory" /\ last'.pid = p /\ last'.ret = TRUE
          \/ last'.op = "clear_all_memory"
          \/ /\ last'.op \in WriteOps
             /\ last'.obs.evaluated
             /\ last'.obs.cap \/ last'.obs.sweep
             /\ p \in EvictedIds(last') ]_vars

\* C27 witness: after an earlier get_all_memory, a write has evicted the Record of another id
C27_Witness ==
    /\ last.op \in WriteOps
    /\ last.obs.cap
    /\ \E p \in EvictedIds(last) : p # last.pid
    /\ held # None

\* the conversation index as a set of (conversation id, list of processing ids) pairs
Buckets(idx) == { <<c, idx[c]>> : c \in DOMAIN idx }

\* C28: the conversation index changes only in store_conversation_id and on the
\* deletion path (clear_memory, clear_all_memory, an eviction): store_classification,
\* store_extracted_data, a store_metadata that evicts nothing and every read leave it
\* as it was.
C28_IndexFrame ==
    [][ Buckets(conversation_index') # Buckets(conversation_index) =>
           \/ last'.op \in {"store_conversation_id", "clear_memory", "clear_all_memory"}
           \/ last'.op = "store_metadata" /\ EvictedIds(last') # {} ]_vars

\* C28 witness: store_metadata ran its retention pass, evicted nothing, and the index
\* holds a bucket
C28_Witness ==
    /\ last.op = "store_metadata" /\ last.ret = TRUE
    /\ last.obs.evaluated /\ EvictedIds(last) = {}
    /\ \E c \in DOMAIN conversation_index : conversation_index[c] # <<>>
    /\ Len(Entry(memory, last.pid).agent_history) = 2

\* the statements thread t may still have to execute in the call it is in, at most
\* (six per id left in the eviction loop; N bounds the length of a loop)
StepsLeft(t) ==
    LET N == Cardinality(ProcIds)
        pc == th[t].pc
        inCall == CASE pc = "cl_check" -> 5 [] pc = "cl_index" -> 4 [] pc = "cl_del" -> 3
                    [] pc = "cl_stats" -> 2 [] pc = "cl_exit" -> 1 [] OTHER -> 0
        afterLoop == IF th[t].stage = "cap" THEN 6 * N + 3 ELSE 1
    IN CASE pc = "idle" -> 0
         [] pc = "ret" -> 1
         [] pc = "lock" -> 12 * N + 8
         [] pc = "sm_write" -> 12 * N + 7
         [] pc = "sm_stats" -> 12 * N + 6
         [] pc = "sm_cap" -> 12 * N + 5
         [] pc = "sm_sweep" -> 6 * N + 3
         [] pc = "sc_write" -> 4
         [] pc = "sc_index" -> 3
         [] pc = "sc_stats" -> 2
         [] pc = "gm_read" -> 2
         [] pc = "ev_next" \/ th[t].nested -> 6 * Len(th[t].pending) + inCall + 1 + afterLoop
         [] OTHER -> inCall + 1

\* the statements all threads may still have to execute, the calls not yet made included
WorkLeft(T) ==
    LET N == Cardinality(ProcIds)
        Sum[S \in SUBSET T] ==
            IF S = {} THEN 0
            ELSE LET t == CHOOSE x \in S : TRUE
                 IN (MaxCalls - th[t].calls) * (12 * N + 9) + StepsLeft(t) + Sum[S \ {t}]
    IN Sum[T]

\* C29: every call made by any thread runs to completion and then leaves the lock
\* free, and with fair scheduling each pending call eventually returns, the
\* clear_memory calls nested in the eviction loop of a write included.  Stated as the
\* three facts that give it under the fairness of SpecThreadsFair: a thread that is
\* not inside a call does not own the lock; the thread inside a call can always execute
\* its next statement, and a thread waiting for a free lock can take it (no statement
\* waits for anything else); and every step, of any thread, lowers the bound WorkLeft
\* on the statements still to execute, so no call runs forever.
C29_Completes ==
    /\ [](\A t \in Threads :
            /\ th[t].pc \in {"idle", "lock"} => lock.owner # t
            /\ Inside(t) => lock.owner = t /\ ENABLED ThreadStep(t)
            /\ (th[t].pc = "lock" /\ lock.owner = 0) => ENABLED Acquire(t))
    /\ [][WorkLeft(Threads)' < WorkLeft(Threads) /\ WorkLeft(Threads)' >= 0]_vars

\* C29 witness: a thread is leaving the clear_memory its eviction loop called, holding
\* the lock twice, while the other thread waits for the lock
C29_Witness ==
    \E t1, t2 \in Threads :
       /\ th[t1].pc = "lock"
       /\ th[t2].pc = "cl_exit" /\ th[t2].nested /\ th[t2].op = "store_metadata"
       /\ lock = [owner |-> t2, count |-> 2]

\* C30: in an age sweep a Record whose timestamp is corrupt or unparseable is treated
\* as expired and evicted, inside the store: the write that triggered the sweep still
\* returns True and the other Records are judged by age as usual.
C30_CorruptExpired ==
    (last.op = "store_metadata" /\ last.obs.sweep) =>
        LET cutoff == now - timedelta(cleanup_hours)
            valid(s) == Parses(s) /\ Comparable(s)
        IN /\ last.ret = TRUE
           /\ \A x \in last.obs.mid :
                 x \in last.obs.post <=> (valid(x[2]) /\ fromisoformat(x[2]) >= cutoff)

\* C31: every Record in the table whose conversation_id is set to a conversation c (a
\* value that can be a key of the index) is listed in bucket c of the conversation
\* index, after any sequence of writes, deletes and evictions.
C31_MembersListed ==
    \A i \in 1..Len(memory) :
       (memory[i].conversation_id # None /\ Hashable(memory[i].conversation_id[1])) =>
          LET c == memory[i].conversation_id[1]
          IN /\ c \in DOMAIN conversation_index
             /\ InList(conversation_index[c], memory[i].processing_id)

\* C31 witness: a member is still listed after another member of its conversation was
\* removed by a delete or an eviction
C31_Witness ==
    /\ last.op \in {"clear_memory", "store_metadata"}
    /\ \E p \in ProcIds :
          /\ Has(memory, p)
          /\ Entry(memory, p).conversation_id = Some("c1")
          /\ \E q \in ProcIds \ {p} :
                \/ last.op = "clear_memory" /\ last.pid = q /\ last.ret = TRUE
                \/ last.op = "store_metadata" /\ q \in EvictedIds(last)

\* C32: every Record returned by get_conversation_history(c) has conversation_id c at
\* the time of the call, after any sequence of operations (a Record reassigned to
\* another conversation, a processing id deleted and created again).
C32_HistoryMembersOnly ==
    (last.op = "get_conversation_history" /\ last.raised = "") =>
        \A i \in 1..Len(last.ret) : last.ret[i].conversation_id = last.arg

\* C33: store_conversation_id is idempotent on the index: however often it is called
\* with the same processing id and conversation id, the id is listed once in the
\* bucket; no bucket ever holds the same processing id twice.
C33_ListedOnce ==
    /\ \A c \in DOMAIN conversation_index :
          \A i, j \in 1..Len(conversation_index[c]) :
             conversation_index[c][i] = conversation_index[c][j] => i = j
    /\ (last.op = "store_conversation_id" /\ last.ret = TRUE) =>
          Cardinality({ i \in 1..Len(conversation_index[last.arg[1]]) :
                          conversation_index[last.arg[1]][i] = last.pid }) = 1

\* C33 witness: the second of two calls with the same processing id and conversation id
C33_Witness ==
    /\ last.op = "store_conversation_id" /\ last.ret = TRUE
    /\ Entry(memory, last.pid).agent_history =
          <<"conversation_id_stored", "conversation_id_stored">>
    /\ \A c \in DOMAIN conversation_index :
          InList(conversation_index[c], last.pid) <=> c = last.arg[1]

\* C34: a write to processing id X changes no field of any other Record: every Record
\* with another id is either removed by an eviction the write triggered or has the
\* same metadata, classification, extracted_data, conversation_id, timestamp and
\* agent_history after the write as before it.
C34_OtherRecordsUntouched ==
    [][ last'.op \in WriteOps =>
           \A q \in Keys(memory) \ {last'.pid} :
              IF Has(memory', q) THEN Entry(memory', q) = Entry(memory, q)
              ELSE q \in EvictedIds(last') ]_vars

\* the agent_history a Record has when the store writes of log, and no others, were
\* applied to it from its creation on
LogTags(log) == [i \in 1..Len(log) |-> TagOf(log[i], i > 1)]

\* C35: with several pipeline runs in flight at once and no delete, the Record of a run
\* holds, when the run completes, everything the run wrote: the metadata stored at its
\* start, its classification, its extracted data, and a history that lists the run's
\* writes in order.
C35_CompletedRunKept ==
    [][ \A p \in 1..Len(pipe) :
           (pipe[p].pc # "done" /\ pipe'[p].pc = "done") =>
               /\ Has(memory', p)
               /\ Entry(memory', p).metadata = pipe'[p].metadata
               /\ Entry(memory', p).classification = pipe'[p].classification
               /\ Entry(memory', p).extracted_data = pipe'[p].extracted_data
               /\ Entry(memory', p).agent_history = LogTags(pipe'[p].log) ]_vars

\* the store writes of a complete run whose document was classified as format
RoutedWrites(format) ==
    <<"store_metadata", "store_classification">> \o
    (IF format = "json" THEN <<"store_extracted_data">>
     ELSE IF format = "email" THEN <<"store_extracted_data", "store_conversation_id">>
     ELSE <<>>)

\* C36: the store writes of a pipeline run come in a fixed order, routed by the
\* classified format: metadata, classification, then extracted data for json,
\* extracted data and conversation id for email, nothing more for any other format.
C36_WritesInOrder ==
    \A p \in 1..Len(pipe) :
       /\ pipe[p].pc = "classify" => pipe[p].log = <<"store_metadata">>
       /\ pipe[p].pc \in {"json_agent", "email_agent"} =>
              pipe[p].log = <<"store_metadata", "store_classification">>
       /\ pipe[p].pc = "done" => pipe[p].log = RoutedWrites(pipe[p].classification[1].format)

\* C37: classify stores a classification for the processing id before it returns, the
\* stored one is the returned one, and when something inside classification fails the
\* one stored and returned is the fallback (unknown, unknown, 0).
C37_ClassificationStored ==
    [][ \A p \in 1..Len(pipe) :
           (pipe[p].pc = "classify" /\ pipe'[p].pc # "classify") =>
               /\ Has(memory', p)
               /\ pipe'[p].classification # None
               /\ Entry(memory', p).classification = pipe'[p].classification
               /\ pipe'[p].failed => pipe'[p].classification = Some(FallbackClassification) ]_vars

\* classify has just returned the fallback for a document whose classification failed,
\* and the Record holds it
C37_Witness ==
    /\ last.op = "store_classification"
    /\ last.pid \in 1..Len(pipe)
    /\ pipe[last.pid].failed
    /\ pipe[last.pid].pc = "done"
    /\ Has(memory, last.pid)
    /\ Entry(memory, last.pid).classification = Some(FallbackClassification)

\* C38: GET /memory/{id} and DELETE /memory/{id} answer 404 when the store returns
\* absent / false for the processing id, and 500 only when the store operation itself
\* failed.
C38_UnknownIs404 ==
    /\ (last.op = "GET /memory/{id}" /\ last.raised = "" /\ last.arg[1] = None) =>
           last.ret = 404
    /\ (last.op = "DELETE /memory/{id}" /\ last.raised = "" /\ ~last.arg[1]) =>
           last.ret = 404
    /\ (last.op \in HttpOps /\ last.ret = 500) => last.raised # ""

\* the calls let through to the AI service in the window of RateWindow seconds from w
AdmittedIn(w) ==
    Cardinality({ i \in 1..Len(gemini.admitted) :
                    gemini.admitted[i] >= w /\ gemini.admitted[i] < w + RateWindow })

\* C39: under any interleaving of concurrent generate_response calls, calls that had to
\* wait included, the rate limiter lets through at most requests_per_minute (60)
\* requests within any 60-second window.
C39_RateLimited ==
    \A w \in 0..gemini.clock : AdmittedIn(w) <= requests_per_minute

====
